---- MODULE Spec2Model ----
(***************************************************************************)
(* Blogicum (blog/views.py, blog/forms.py): the view handlers for posts,   *)
(* comments, categories and user profiles, as a state machine over the     *)
(* database tables.  One action per view class; each action handles one    *)
(* HTTP request completely and records the request and the response.       *)
(***************************************************************************)
EXTENDS Integers, FiniteSets, Sequences, TLC

\* ---------------------------------------------------------------- bounds
MaxPosts == 2
MaxComments == 1
MaxTime == 3

\* Clock ticks per calendar day: pub_date__date truncates a timestamp to
\* its day, so the model needs instants finer than a day.
TicksPerDay == 2

\* ---------------------------------------------------------------- data
Users == {"alice", "bob"}
Anonymous == "anonymous"
Viewers == Users \cup {Anonymous}
Usernames == Users \cup {"nobody"}

PostIds == 1..MaxPosts
\* primary keys a path can carry: every key that can exist and one that never does
PathPostIds == 1..(MaxPosts + 1)
PathCommentIds == 1..(MaxComments + 1)
CategorySlugs == {"news", "drafts", "none"}
Times == 1..MaxTime
Texts == {"a", "b"}
Names == {"x"}
Methods == {"GET", "POST"}

VARIABLES
    now,          \* timezone.now()
    categories,   \* Category table: slug -> [is_published]
    users,        \* User table: username -> [first_name]
    posts,        \* Post table: pk -> [author, is_published, pub_date, category]
    comments,     \* Comment table: pk -> [post, author, text]
    post_seq,     \* next Post primary key (AUTOINCREMENT)
    comment_seq,  \* next Comment primary key
    created_by,   \* history: who created each stored post / comment
    request,      \* the request handled last
    response      \* the response to it

db == <<categories, users, posts, comments, post_seq, comment_seq>>
vars == <<now, categories, users, posts, comments, post_seq, comment_seq,
          created_by, request, response>>

\* ---------------------------------------------------------------- requests
NoData == [none |-> TRUE]

\* view: the view class that handles the request; via: the class the URL
\* resolved to when that class only delegates (PostView), else "".
\* data: the form data the view bound (NoData when it answered before it
\* built its form, and for a GET).
\* name: the username or the category slug of the path ("" when it has none).
Request(view, via, method, user, post_id, comment_id, name, data) ==
    [view |-> view, via |-> via, method |-> method, user |-> user,
     post_id |-> post_id, comment_id |-> comment_id, name |-> name,
     data |-> data]

NoRequest == Request("", "", "", Anonymous, 0, 0, "", NoData)

\* ---------------------------------------------------------------- responses
Response(status, template, location, post_id, username, object_list) ==
    [status |-> status, template |-> template, location |-> location,
     post_id |-> post_id, username |-> username, object_list |-> object_list]

NoResponse == Response(0, "", "", 0, "", {})
Http404 == Response(404, "", "", 0, "", {})
Render(template, object_list) == Response(200, template, "", 0, "", object_list)
RedirectToLogin == Response(302, "", "login", 0, "", {})
RedirectToPostDetail(post_id) == Response(302, "", "blog:post_detail", post_id, "", {})
RedirectToProfile(username) == Response(302, "", "blog:profile", 0, username, {})

\* ---------------------------------------------------------------- forms
\* PostForm: every Post field but author.  valid = FALSE stands for data the
\* form rejects (a required field missing).
PostForm(is_published, pub_date, category) ==
    [valid |-> TRUE, is_published |-> is_published, pub_date |-> pub_date,
     category |-> category]
InvalidPostForm == [valid |-> FALSE, is_published |-> FALSE, pub_date |-> 1,
                    category |-> "news"]

\* The body of a comment POST: text is the only field CommentForm reads;
\* post and author are values a client may add to the body.
CommentBody(text, post, author) == [text |-> text, post |-> post, author |-> author]

\* UserEditForm, reduced to first_name.
UserEditForm(first_name) == [valid |-> TRUE, first_name |-> first_name]
InvalidUserEditForm == [valid |-> FALSE, first_name |-> ""]

\* ---------------------------------------------------------------- queries
is_authenticated(user) == user # Anonymous

\* pub_date__date: the calendar day of a timestamp
Date(t) == t \div TicksPerDay

Count(post_id) == Cardinality({c \in DOMAIN comments : comments[c].post = post_id})

\* manager: the primary keys of the base collection; conditions: the keys
\* that satisfy the keyword filters of the call.  The result is the set of
\* annotated rows (Post._meta.ordering is not modelled: a set has no order).
get_filtered_posts(manager, only_published, ban_delayed, conditions) ==
    LET kept == {p \in manager \cap conditions :
                    /\ (ban_delayed => Date(posts[p].pub_date) < Date(now))
                    /\ (only_published => posts[p].is_published)}
    IN  {[id |-> p, comment_count |-> Count(p)] : p \in kept}

category__is_published ==
    {p \in DOMAIN posts : /\ posts[p].category \in DOMAIN categories
                          /\ categories[posts[p].category].is_published}

author__username(username) == {p \in DOMAIN posts : posts[p].author = username}

category_posts(slug) == {p \in DOMAIN posts : posts[p].category = slug}

\* ---------------------------------------------------------------- steps
\* A view handles one request at a time: it takes a request when none is
\* being answered and leaves the response to be sent.
Handle(req, resp) ==
    /\ request = NoRequest
    /\ request' = req
    /\ response' = resp

\* The response goes out to the client.
Respond ==
    /\ request # NoRequest
    /\ request' = NoRequest
    /\ response' = NoResponse
    /\ UNCHANGED <<now, db, created_by>>

\* ---------------------------------------------------------------- list views
\* PostListView.get_queryset + ListView.get
PostListView(user) ==
    /\ Handle(Request("PostListView", "", "GET", user, 0, 0, "", NoData),
              Render("blog/index.html",
                     get_filtered_posts(DOMAIN posts, TRUE, TRUE,
                                        category__is_published)))
    /\ UNCHANGED <<now, db, created_by>>

\* CategoryPostsListView.get_queryset
CategoryPostsListView(user, category) ==
    /\ Handle(Request("CategoryPostsListView", "", "GET", user, 0, 0, category, NoData),
              IF category \in DOMAIN categories /\ categories[category].is_published
              THEN Render("blog/category.html",
                          get_filtered_posts(category_posts(category), TRUE, TRUE,
                                             DOMAIN posts))
              ELSE Http404)
    /\ UNCHANGED <<now, db, created_by>>

\* UserProfileView.dispatch + get_queryset
UserProfileView(user, username) ==
    LET is_owner == is_authenticated(user) /\ user = username IN
    /\ Handle(Request("UserProfileView", "", "GET", user, 0, 0, username, NoData),
              IF username \notin DOMAIN users THEN Http404
              ELSE IF is_owner
              THEN Render("blog/profile.html",
                          get_filtered_posts(DOMAIN posts, FALSE, FALSE,
                                             author__username(username)))
              ELSE Render("blog/profile.html",
                          get_filtered_posts(DOMAIN posts, TRUE, TRUE,
                                             author__username(username))))
    /\ UNCHANGED <<now, db, created_by>>

\* ---------------------------------------------------------------- post detail
\* PostDetailView.dispatch; the page shows the post response.post_id
PostDetailView(via, user, post_id) ==
    /\ Handle(Request("PostDetailView", via, "GET", user, post_id, 0, "", NoData),
              IF post_id \notin DOMAIN posts THEN Http404
              ELSE IF /\ ~posts[post_id].is_published
                      /\ (~is_authenticated(user) \/ user # posts[post_id].author)
              THEN Http404
              ELSE Response(200, "blog/detail.html", "", post_id, "", {}))
    /\ UNCHANGED <<now, db, created_by>>

\* ---------------------------------------------------------------- posts
\* PostCreateView.dispatch (login_required) + CreateView + form_valid
PostCreateView(user, method, form) ==
    LET req == Request("PostCreateView", "", method, user, 0, 0, "", form)
        early == Request("PostCreateView", "", method, user, 0, 0, "", NoData)
    IN
    IF ~is_authenticated(user)
    THEN Handle(early, RedirectToLogin) /\ UNCHANGED <<now, db, created_by>>
    ELSE IF method = "GET"
    THEN Handle(early, Render("blog/create.html", {}))
         /\ UNCHANGED <<now, db, created_by>>
    ELSE IF ~form.valid
    THEN Handle(req, Render("blog/create.html", {}))
         /\ UNCHANGED <<now, db, created_by>>
    ELSE /\ post_seq <= MaxPosts
         /\ posts' = [p \in DOMAIN posts \cup {post_seq} |->
                        IF p = post_seq
                        THEN [author |-> user,
                              is_published |-> form.is_published,
                              pub_date |-> form.pub_date,
                              category |-> form.category]
                        ELSE posts[p]]
         /\ post_seq' = post_seq + 1
         /\ created_by' = [created_by EXCEPT !.post =
                             [p \in DOMAIN posts \cup {post_seq} |->
                                IF p = post_seq THEN user ELSE created_by.post[p]]]
         /\ Handle(req, RedirectToProfile(user))
         /\ UNCHANGED <<now, categories, users, comments, comment_seq>>

\* PostUpdateView.dispatch + UpdateView
PostUpdateView(user, method, post_id, form) ==
    LET req == Request("PostUpdateView", "", method, user, post_id, 0, "", form)
        early == Request("PostUpdateView", "", method, user, post_id, 0, "", NoData)
    IN
    IF ~is_authenticated(user)
    THEN Handle(early, RedirectToLogin) /\ UNCHANGED <<now, db, created_by>>
    ELSE IF post_id \notin DOMAIN posts
    THEN Handle(early, Http404) /\ UNCHANGED <<now, db, created_by>>
    ELSE IF posts[post_id].author # user
    THEN Handle(early, RedirectToPostDetail(post_id))
         /\ UNCHANGED <<now, db, created_by>>
    ELSE IF method = "GET"
    THEN Handle(early, Render("blog/create.html", {}))
         /\ UNCHANGED <<now, db, created_by>>
    ELSE IF ~form.valid
    THEN Handle(req, Render("blog/create.html", {}))
         /\ UNCHANGED <<now, db, created_by>>
    ELSE /\ posts' = [posts EXCEPT ![post_id] =
                        [author |-> posts[post_id].author,
                         is_published |-> form.is_published,
                         pub_date |-> form.pub_date,
                         category |-> form.category]]
         /\ Handle(req, RedirectToPostDetail(post_id))
         /\ UNCHANGED <<now, categories, users, comments, post_seq, comment_seq,
                        created_by>>

\* Comment.post: the comments of a deleted post go with it
on_delete(post_id) == {c \in DOMAIN comments : comments[c].post # post_id}

\* PostDeleteView with get_object() run before the login check
PostDeleteView_ObjectFirst(user, method, post_id) ==
    LET early == Request("PostDeleteView", "", method, user, post_id, 0, "", NoData) IN
    IF post_id \notin DOMAIN posts
    THEN Handle(early, Http404) /\ UNCHANGED <<now, db, created_by>>
    ELSE IF ~is_authenticated(user)
    THEN Handle(early, RedirectToLogin) /\ UNCHANGED <<now, db, created_by>>
    ELSE IF posts[post_id].author # user
    THEN Handle(early, RedirectToPostDetail(post_id))
         /\ UNCHANGED <<now, db, created_by>>
    ELSE IF method = "GET"
    THEN Handle(early, Render("blog/create.html", {}))
         /\ UNCHANGED <<now, db, created_by>>
    ELSE /\ posts' = [p \in DOMAIN posts \ {post_id} |-> posts[p]]
         /\ comments' = [c \in on_delete(post_id) |-> comments[c]]
         /\ created_by' = [post |-> [p \in DOMAIN posts \ {post_id} |->
                                        created_by.post[p]],
                           comment |-> [c \in on_delete(post_id) |->
                                           created_by.comment[c]]]
         /\ Handle(early, RedirectToProfile(user))
         /\ UNCHANGED <<now, categories, users, post_seq, comment_seq>>

\* PostDeleteView.dispatch + DeleteView
PostDeleteView(user, method, post_id) ==
    LET early == Request("PostDeleteView", "", method, user, post_id, 0, "", NoData) IN
    IF ~is_authenticated(user)
    THEN Handle(early, RedirectToLogin) /\ UNCHANGED <<now, db, created_by>>
    ELSE IF post_id \notin DOMAIN posts
    THEN Handle(early, Http404) /\ UNCHANGED <<now, db, created_by>>
    ELSE IF posts[post_id].author # user
    THEN Handle(early, RedirectToPostDetail(post_id))
         /\ UNCHANGED <<now, db, created_by>>
    ELSE IF method = "GET"
    THEN Handle(early, Render("blog/create.html", {}))
         /\ UNCHANGED <<now, db, created_by>>
    ELSE /\ posts' = [p \in DOMAIN posts \ {post_id} |-> posts[p]]
         /\ comments' = [c \in on_delete(post_id) |-> comments[c]]
         /\ created_by' = [post |-> [p \in DOMAIN posts \ {post_id} |->
                                        created_by.post[p]],
                           comment |-> [c \in on_delete(post_id) |->
                                           created_by.comment[c]]]
         /\ Handle(early, RedirectToProfile(user))
         /\ UNCHANGED <<now, categories, users, post_seq, comment_seq>>

\* ---------------------------------------------------------------- comments
\* CommentCreateView with post and author among the form's fields
CommentCreateView_BodyFields(via, user, method, post_id, body) ==
    LET req == Request("CommentCreateView", via, method, user, post_id, 0, "", body)
        early == Request("CommentCreateView", via, method, user, post_id, 0, "", NoData)
    IN
    IF ~is_authenticated(user)
    THEN Handle(early, RedirectToLogin) /\ UNCHANGED <<now, db, created_by>>
    ELSE IF method = "GET"
    THEN Handle(early, Render("blog/comment.html", {}))
         /\ UNCHANGED <<now, db, created_by>>
    ELSE IF body.text = ""
    THEN Handle(req, Render("blog/comment.html", {}))
         /\ UNCHANGED <<now, db, created_by>>
    ELSE IF post_id \notin DOMAIN posts \/ body.post \notin DOMAIN posts
    THEN Handle(req, Http404) /\ UNCHANGED <<now, db, created_by>>
    ELSE /\ comment_seq <= MaxComments
         /\ comments' = [c \in DOMAIN comments \cup {comment_seq} |->
                           IF c = comment_seq
                           THEN [post |-> body.post, author |-> body.author,
                                 text |-> body.text]
                           ELSE comments[c]]
         /\ comment_seq' = comment_seq + 1
         /\ created_by' = [created_by EXCEPT !.comment =
                             [c \in DOMAIN comments \cup {comment_seq} |->
                                IF c = comment_seq THEN user
                                ELSE created_by.comment[c]]]
         /\ Handle(req, RedirectToPostDetail(post_id))
         /\ UNCHANGED <<now, categories, users, posts, post_seq>>

\* CommentCreateView.dispatch (login_required) + CreateView + get_post + form_valid
CommentCreateView(via, user, method, post_id, body) ==
    LET req == Request("CommentCreateView", via, method, user, post_id, 0, "", body)
        early == Request("CommentCreateView", via, method, user, post_id, 0, "", NoData)
    IN
    IF ~is_authenticated(user)
    THEN Handle(early, RedirectToLogin) /\ UNCHANGED <<now, db, created_by>>
    ELSE IF method = "GET"
    THEN Handle(early, Render("blog/comment.html", {}))
         /\ UNCHANGED <<now, db, created_by>>
    ELSE IF body.text = ""
    THEN Handle(req, Render("blog/comment.html", {}))
         /\ UNCHANGED <<now, db, created_by>>
    ELSE IF post_id \notin DOMAIN posts
    THEN Handle(req, Http404) /\ UNCHANGED <<now, db, created_by>>
    ELSE /\ comment_seq <= MaxComments
         /\ comments' = [c \in DOMAIN comments \cup {comment_seq} |->
                           IF c = comment_seq
                           THEN [post |-> post_id, author |-> user,
                                 text |-> body.text]
                           ELSE comments[c]]
         /\ comment_seq' = comment_seq + 1
         /\ created_by' = [created_by EXCEPT !.comment =
                             [c \in DOMAIN comments \cup {comment_seq} |->
                                IF c = comment_seq THEN user
                                ELSE created_by.comment[c]]]
         /\ Handle(req, RedirectToPostDetail(post_id))
         /\ UNCHANGED <<now, categories, users, posts, post_seq>>

\* CommentUpdateView without the author check of dispatch
CommentUpdateView_AnyUser(user, method, post_id, comment_id, body) ==
    LET req == Request("CommentUpdateView", "", method, user, post_id, comment_id,
                       "", body)
        early == Request("CommentUpdateView", "", method, user, post_id, comment_id,
                       "", NoData)
    IN
    IF ~is_authenticated(user)
    THEN Handle(early, RedirectToLogin) /\ UNCHANGED <<now, db, created_by>>
    ELSE IF comment_id \notin DOMAIN comments
    THEN Handle(early, Http404) /\ UNCHANGED <<now, db, created_by>>
    ELSE IF method = "GET"
    THEN Handle(early, Render("blog/comment.html", {}))
         /\ UNCHANGED <<now, db, created_by>>
    ELSE IF body.text = ""
    THEN Handle(req, Render("blog/comment.html", {}))
         /\ UNCHANGED <<now, db, created_by>>
    ELSE IF post_id \notin DOMAIN posts
    THEN Handle(req, Http404) /\ UNCHANGED <<now, db, created_by>>
    ELSE /\ comments' = [comments EXCEPT ![comment_id] =
                           [post |-> post_id, author |-> user, text |-> body.text]]
         /\ Handle(req, RedirectToPostDetail(post_id))
         /\ UNCHANGED <<now, categories, users, posts, post_seq, comment_seq,
                        created_by>>

\* CommentUpdateView.dispatch + UpdateView + get_post + form_valid
CommentUpdateView(user, method, post_id, comment_id, body) ==
    LET req == Request("CommentUpdateView", "", method, user, post_id, comment_id,
                       "", body)
        early == Request("CommentUpdateView", "", method, user, post_id, comment_id,
                       "", NoData)
    IN
    IF ~is_authenticated(user)
    THEN Handle(early, RedirectToLogin) /\ UNCHANGED <<now, db, created_by>>
    ELSE IF comment_id \notin DOMAIN comments
    THEN Handle(early, Http404) /\ UNCHANGED <<now, db, created_by>>
    ELSE IF comments[comment_id].author # user
    THEN Handle(early, RedirectToPostDetail(post_id))
         /\ UNCHANGED <<now, db, created_by>>
    ELSE IF method = "GET"
    THEN Handle(early, Render("blog/comment.html", {}))
         /\ UNCHANGED <<now, db, created_by>>
    ELSE IF body.text = ""
    THEN Handle(req, Render("blog/comment.html", {}))
         /\ UNCHANGED <<now, db, created_by>>
    ELSE IF post_id \notin DOMAIN posts
    THEN Handle(req, Http404) /\ UNCHANGED <<now, db, created_by>>
    ELSE /\ comments' = [comments EXCEPT ![comment_id] =
                           [post |-> post_id, author |-> user, text |-> body.text]]
         /\ Handle(req, RedirectToPostDetail(post_id))
         /\ UNCHANGED <<now, categories, users, posts, post_seq, comment_seq,
                        created_by>>

\* CommentDeleteView without the author check of dispatch
CommentDeleteView_AnyUser(user, method, post_id, comment_id) ==
    LET early == Request("CommentDeleteView", "", method, user, post_id, comment_id,
                       "", NoData) IN
    IF ~is_authenticated(user)
    THEN Handle(early, RedirectToLogin) /\ UNCHANGED <<now, db, created_by>>
    ELSE IF comment_id \notin DOMAIN comments
    THEN Handle(early, Http404) /\ UNCHANGED <<now, db, created_by>>
    ELSE IF method = "GET"
    THEN Handle(early, Render("blog/comment.html", {}))
         /\ UNCHANGED <<now, db, created_by>>
    ELSE /\ comments' = [c \in DOMAIN comments \ {comment_id} |-> comments[c]]
         /\ created_by' = [created_by EXCEPT !.comment =
                             [c \in DOMAIN comments \ {comment_id} |->
                                created_by.comment[c]]]
         /\ Handle(early, RedirectToPostDetail(post_id))
         /\ UNCHANGED <<now, categories, users, posts, post_seq, comment_seq>>

\* CommentDeleteView.dispatch + DeleteView
CommentDeleteView(user, method, post_id, comment_id) ==
    LET early == Request("CommentDeleteView", "", method, user, post_id, comment_id,
                       "", NoData) IN
    IF ~is_authenticated(user)
    THEN Handle(early, RedirectToLogin) /\ UNCHANGED <<now, db, created_by>>
    ELSE IF comment_id \notin DOMAIN comments
    THEN Handle(early, Http404) /\ UNCHANGED <<now, db, created_by>>
    ELSE IF comments[comment_id].author # user
    THEN Handle(early, RedirectToPostDetail(post_id))
         /\ UNCHANGED <<now, db, created_by>>
    ELSE IF method = "GET"
    THEN Handle(early, Render("blog/comment.html", {}))
         /\ UNCHANGED <<now, db, created_by>>
    ELSE /\ comments' = [c \in DOMAIN comments \ {comment_id} |-> comments[c]]
         /\ created_by' = [created_by EXCEPT !.comment =
                             [c \in DOMAIN comments \ {comment_id} |->
                                created_by.comment[c]]]
         /\ Handle(early, RedirectToPostDetail(post_id))
         /\ UNCHANGED <<now, categories, users, posts, post_seq, comment_seq>>

\* PostView.get / PostView.post
PostView(user, method, post_id, body) ==
    IF method = "GET"
    THEN PostDetailView("PostView", user, post_id)
    ELSE CommentCreateView("PostView", user, method, post_id, body)

\* ---------------------------------------------------------------- profile edit
\* UserUpdateView.dispatch (login_required) + get_object + UpdateView
UserUpdateView(user, method, form) ==
    LET req == Request("UserUpdateView", "", method, user, 0, 0, "", form)
        early == Request("UserUpdateView", "", method, user, 0, 0, "", NoData)
    IN
    IF ~is_authenticated(user)
    THEN Handle(early, RedirectToLogin) /\ UNCHANGED <<now, db, created_by>>
    ELSE IF method = "GET"
    THEN Handle(early, Render("blog/user.html", {}))
         /\ UNCHANGED <<now, db, created_by>>
    ELSE IF ~form.valid
    THEN Handle(req, Render("blog/user.html", {}))
         /\ UNCHANGED <<now, db, created_by>>
    ELSE /\ users' = [users EXCEPT ![user] = [first_name |-> form.first_name]]
         /\ Handle(req, RedirectToProfile(user))
         /\ UNCHANGED <<now, categories, posts, comments, post_seq, comment_seq,
                        created_by>>

\* ---------------------------------------------------------------- the clock
\* Time passes between two requests.
Tick ==
    /\ request = NoRequest
    /\ now < MaxTime
    /\ now' = now + 1
    /\ UNCHANGED <<db, created_by, request, response>>

\* ---------------------------------------------------------------- SpecViews
\* The read-only views over every content of the Post table that fits the
\* bounds: any table of up to MaxPosts posts is one a sequence of PostCreateView
\* and PostDeleteView requests leaves behind.
PostRows == [author : Users, is_published : BOOLEAN, pub_date : Times,
             category : {"news", "drafts"}]

InitTables ==
    /\ categories = [c \in {"news", "drafts"} |-> [is_published |-> (c = "news")]]
    /\ users = [u \in Users |-> [first_name |-> ""]]

InitViews ==
    /\ InitTables
    /\ now = TicksPerDay
    /\ \E ids \in SUBSET PostIds : posts \in [ids -> PostRows]
    /\ comments = << >>
    /\ post_seq = MaxPosts + 1
    /\ comment_seq = 1
    /\ created_by = [post |-> [p \in DOMAIN posts |-> posts[p].author],
                     comment |-> << >>]
    /\ request = NoRequest
    /\ response = NoResponse

NextViews ==
    \/ \E user \in Viewers : PostListView(user)
    \/ \E user \in Viewers, category \in CategorySlugs :
            CategoryPostsListView(user, category)
    \/ \E user \in Viewers, username \in Usernames : UserProfileView(user, username)
    \/ \E user \in Viewers, post_id \in PathPostIds : PostDetailView("", user, post_id)
    \/ Tick
    \/ Respond

SpecViews == InitViews /\ [][NextViews]_vars

\* ---------------------------------------------------------------- Spec
\* The editing views from an empty blog.  The post forms set is_published
\* freely and keep the other fields to one value each.
PostForms == {PostForm(is_published, 1, "news") : is_published \in BOOLEAN}
                \cup {InvalidPostForm}
\* extra body fields: each names a post and a user that some request differs from
ExtraFields == {[post |-> 1, author |-> "alice"], [post |-> MaxPosts, author |-> "bob"]}
CommentBodies == {CommentBody(text, e.post, e.author) :
                    text \in Texts \cup {""}, e \in ExtraFields}
\* an edit form carries the text alone
EditBodies == {CommentBody(text, 0, "") : text \in Texts \cup {""}}
UserEditForms == {UserEditForm(first_name) : first_name \in Names}
                    \cup {InvalidUserEditForm}
\* a GET carries no form data
Data(method, forms) == IF method = "GET" THEN {NoData} ELSE forms

Init ==
    /\ InitTables
    /\ now = TicksPerDay
    /\ posts = << >>
    /\ comments = << >>
    /\ post_seq = 1
    /\ comment_seq = 1
    /\ created_by = [post |-> << >>, comment |-> << >>]
    /\ request = NoRequest
    /\ response = NoResponse

Next ==
    \/ \E user \in Viewers, method \in Methods :
         \E form \in Data(method, PostForms) :
            PostCreateView(user, method, form)
    \/ \E user \in Viewers, method \in Methods, post_id \in PathPostIds :
         \E form \in Data(method, PostForms) :
            PostUpdateView(user, method, post_id, form)
    \/ \E user \in Viewers, method \in Methods, post_id \in PathPostIds :
            PostDeleteView(user, method, post_id)
    \/ \E user \in Viewers, method \in Methods, post_id \in PathPostIds :
         \E body \in Data(method, CommentBodies) :
            CommentCreateView("", user, method, post_id, body)
    \/ \E user \in Viewers, method \in Methods, post_id \in PathPostIds,
          comment_id \in PathCommentIds :
         \E body \in Data(method, EditBodies) :
            CommentUpdateView(user, method, post_id, comment_id, body)
    \/ \E user \in Viewers, method \in Methods, post_id \in PathPostIds,
          comment_id \in PathCommentIds :
            CommentDeleteView(user, method, post_id, comment_id)
    \/ \E user \in Viewers, method \in Methods, post_id \in PathPostIds :
         \E body \in Data(method, CommentBodies) :
            PostView(user, method, post_id, body)
    \/ \E user \in Viewers, method \in Methods :
         \E form \in Data(method, UserEditForms) :
            UserUpdateView(user, method, form)
    \/ Respond

Spec == Init /\ [][Next]_vars

\* ================================================================ claims
\* The spec's "publicly visible": is_published, pub_date <= now, and the
\* category published.
PubliclyVisible(p) ==
    /\ posts[p].is_published
    /\ posts[p].pub_date <= now
    /\ categories[posts[p].category].is_published

Ids(object_list) == {row.id : row \in object_list}

MutationViews == {"PostCreateView", "PostUpdateView", "PostDeleteView",
                  "CommentCreateView", "CommentUpdateView", "CommentDeleteView",
                  "UserUpdateView"}

\* ---------------------------------------------------------------- C1
\* C1: the post detail page answers 404 unless the post is publicly visible
\* or the viewer is its author.
C1_DetailOnlyVisibleOrAuthor ==
    request.view = "PostDetailView" =>
        \/ response.status = 404
        \/ /\ request.post_id \in DOMAIN posts
           /\ \/ PubliclyVisible(request.post_id)
              \/ request.user = posts[request.post_id].author

\* ---------------------------------------------------------------- C2
\* C2: the index lists exactly the publicly visible posts, and the page of a
\* published category lists exactly the publicly visible posts of that category.
C2_ListingsAreThePublicPosts ==
    /\ request.view = "PostListView" =>
          Ids(response.object_list) = {p \in DOMAIN posts : PubliclyVisible(p)}
    /\ (request.view = "CategoryPostsListView" /\ response.status = 200) =>
          Ids(response.object_list) =
              {p \in category_posts(request.name) : PubliclyVisible(p)}

\* ---------------------------------------------------------------- C3
\* C3: the profile page of U lists all posts of U to U, and to anyone else
\* only the publicly visible posts of U.
C3_ProfileListing ==
    (request.view = "UserProfileView" /\ response.status = 200) =>
        IF request.user = request.name
        THEN Ids(response.object_list) = author__username(request.name)
        ELSE Ids(response.object_list) \subseteq
                {p \in author__username(request.name) : PubliclyVisible(p)}

\* ---------------------------------------------------------------- C4
NotTheAuthor(r) ==
    /\ is_authenticated(r.user)
    /\ \/ /\ r.view \in {"PostUpdateView", "PostDeleteView"}
          /\ r.post_id \in DOMAIN posts
          /\ posts[r.post_id].author # r.user
       \/ /\ r.view \in {"CommentUpdateView", "CommentDeleteView"}
          /\ r.comment_id \in DOMAIN comments
          /\ comments[r.comment_id].author # r.user

C4_Step ==
    NotTheAuthor(request') =>
        /\ response' = RedirectToPostDetail(request'.post_id)
        /\ UNCHANGED <<posts, comments>>

\* C4: a logged-in user who is not the author of the post or comment an update
\* or delete request (GET or POST) targets is redirected to the post detail
\* page, gets no form, and the stored posts and comments stay as they were.
C4_NonAuthorIsRedirected == [][C4_Step]_vars

\* a POST to delete someone else's comment was answered, and the comment is there
C4_Witness ==
    /\ request.view = "CommentDeleteView"
    /\ request.method = "POST"
    /\ NotTheAuthor(request)
    /\ response.status = 302

\* ---------------------------------------------------------------- C5
C5_Step ==
    \A c \in DOMAIN comments' \ DOMAIN comments :
        /\ request'.view = "CommentCreateView"
        /\ is_authenticated(request'.user)
        /\ comments'[c].post = request'.post_id
        /\ comments'[c].author = request'.user

\* C5: a comment that a request creates belongs to the post of the path and
\* to the logged-in user of the request, whatever post and author the body
\* carries, also when the POST arrives through PostView.
C5_CommentLinkedToPathAndUser == [][C5_Step]_vars

\* a POST through PostView whose body names another post and another author
\* has created a comment
C5_Witness ==
    /\ request.view = "CommentCreateView"
    /\ request.via = "PostView"
    /\ response.status = 302
    /\ response.location = "blog:post_detail"
    /\ request.data.author # request.user
    /\ request.data.post # request.post_id
    /\ \E c \in DOMAIN comments :
          comments[c].post = request.post_id /\ comments[c].author = request.user

\* ---------------------------------------------------------------- C6
C6_Step ==
    (request'.view \in MutationViews /\ ~is_authenticated(request'.user)) =>
        /\ response' = RedirectToLogin
        /\ UNCHANGED <<posts, comments, users>>

\* C6: an unauthenticated request to a mutation route is redirected to the
\* login page and changes no post, comment or user, also when the post or
\* comment of the path does not exist.
C6_AnonymousGoesToLogin == [][C6_Step]_vars

\* an anonymous POST to delete a post that does not exist was sent to the
\* login page, while posts of others are stored
C6_Witness ==
    /\ request.view = "PostDeleteView"
    /\ request.method = "POST"
    /\ request.user = Anonymous
    /\ request.post_id \notin DOMAIN posts
    /\ DOMAIN posts # {}
    /\ response = RedirectToLogin

\* ---------------------------------------------------------------- C7
MissingObject(r) ==
    \/ /\ r.view \in {"PostDetailView", "PostUpdateView", "PostDeleteView",
                      "CommentCreateView", "CommentUpdateView", "CommentDeleteView"}
       /\ r.post_id \notin DOMAIN posts
    \/ /\ r.view \in {"CommentUpdateView", "CommentDeleteView"}
       /\ r.comment_id \notin DOMAIN comments
    \/ /\ r.view = "CategoryPostsListView"
       /\ r.name \notin DOMAIN categories

C7_Step ==
    (is_authenticated(request'.user) /\ MissingObject(request')) =>
        response'.status = 404

\* C7: a logged-in user's request whose path names a post, category or
\* comment that does not exist is answered 404.
C7_MissingObjectIs404 == [][C7_Step]_vars

\* ---------------------------------------------------------------- C8
C8_Step ==
    LET r == request' IN
    (/\ r.view = "CommentUpdateView"
     /\ r.method = "POST"
     /\ r.comment_id \in DOMAIN comments
     /\ comments[r.comment_id].author = r.user
     /\ response'.status = 302) =>
        comments' = [comments EXCEPT ![r.comment_id].text = r.data.text]

\* C8: a successful comment update by its author changes the text only; the
\* comment stays on its post whatever post_id the path carries.
C8_UpdateKeepsThePost == [][C8_Step]_vars

\* ---------------------------------------------------------------- C9
C9_Step ==
    LET r == request' IN
    (/\ r.view = "CommentCreateView"
     /\ r.method = "POST"
     /\ is_authenticated(r.user)
     /\ r.post_id \in DOMAIN posts
     /\ ~PubliclyVisible(r.post_id)
     /\ posts[r.post_id].author # r.user) =>
        comments' = comments

\* C9: a comment-create POST on a post that is not publicly visible and not
\* the requesting user's own creates no comment.
C9_NoCommentOnHiddenPost == [][C9_Step]_vars

\* ---------------------------------------------------------------- C10
AuthorIsCreator ==
    /\ \A p \in DOMAIN posts : posts[p].author = created_by.post[p]
    /\ \A c \in DOMAIN comments : comments[c].author = created_by.comment[c]

Touched(table, table2, k) == k \notin DOMAIN table2 \/ table2[k] # table[k]

PostsTouchedByAuthor ==
    \A p \in DOMAIN posts :
        Touched(posts, posts', p) => request'.user = posts[p].author

CommentsTouchedByAuthor ==
    \A c \in DOMAIN comments :
        Touched(comments, comments', c) => request'.user = comments[c].author

\* the comment went with its post, which the post's author deleted
DeletedWithItsPost(c) ==
    /\ c \notin DOMAIN comments'
    /\ comments[c].post \notin DOMAIN posts'
    /\ request'.view = "PostDeleteView"
    /\ request'.user = posts[comments[c].post].author

CommentsTouchedByAuthorOrWithPost ==
    \A c \in DOMAIN comments :
        Touched(comments, comments', c) =>
            request'.user = comments[c].author \/ DeletedWithItsPost(c)

\* C10 (as claimed): the author of every stored post and comment is the user
\* whose request created it, and a post or comment is modified or deleted
\* only by a request of its author.
C10_OnlyTheAuthorTouches ==
    [][AuthorIsCreator' /\ PostsTouchedByAuthor /\ CommentsTouchedByAuthor]_vars

\* C10 (amended): the author of every stored post and comment is the user
\* whose request created it; a post is modified or deleted only by a request
\* of its author; a comment is modified only by a request of its author and
\* deleted only by a request of its author or, together with its post, by the
\* post author's deletion of that post.
C10_OnlyTheAuthorTouchesOrPostGoes ==
    [][AuthorIsCreator' /\ PostsTouchedByAuthor
       /\ CommentsTouchedByAuthorOrWithPost]_vars

\* a user has updated their comment on another user's post, and is still the
\* comment's author and creator
C10_Witness ==
    /\ request.view = "CommentUpdateView"
    /\ request.method = "POST"
    /\ response.status = 302
    /\ request.comment_id \in DOMAIN comments
    /\ comments[request.comment_id].author = request.user
    /\ request.data.text = comments[request.comment_id].text
    /\ created_by.comment[request.comment_id] = request.user
    /\ posts[comments[request.comment_id].post].author # request.user

====
